---------------------------- MODULE Spec2Model ----------------------------
(***************************************************************************)
(* Model of interfaces_report.py: the pipeline of main (fetch, aggregate,  *)
(* emit) and the pure functions it is made of.                             *)
(*                                                                         *)
(* Encodings.                                                              *)
(*  - A Python dict is a sequence of <<key, value>> pairs in insertion     *)
(*    order (dicts iterate in insertion order).  An interface record is a  *)
(*    TLA+ record; only the fields the code reads are kept (hostname, sn,  *)
(*    siteName, l1, l2, reason), the other columns are passed through      *)
(*    untouched and never read.  A record whose reason key is missing has  *)
(*    no "reason" field.                                                   *)
(*  - A reason string is a sequence of one-character strings, so that the  *)
(*    substring test and the case-sensitive list membership are computed.  *)
(*    None is the one-element sequence <<"None">>, which is no string.     *)
(*  - A percentage is an integer number of hundredths of a percent         *)
(*    (50.0 is 5000): round(x, 2) keeps two decimals.                      *)
(***************************************************************************)
EXTENDS Integers, Sequences, FiniteSets

VARIABLES
    pc,                 \* position of main
    error,              \* the exception that ended the run, "none" if none
    report_format,      \* main's report_format
    interfaces_json,    \* list returned by ipf.inventory.interfaces.all
    interfaces_dict,    \* grouping built by fetch_interfaces_data
    interfaces_report,  \* list built by build_interface_report
    report_file         \* the output file

vars == <<pc, error, report_format, interfaces_json, interfaces_dict,
          interfaces_report, report_file>>

\* Longest list of interface records the inventory returns (and longest
\* per-device list given to build_interface_report on its own).
MaxLen == 3

---------------------------------------------------------------------------
(* Strings *)

None == <<"None">>

S_admin == <<"a","d","m","i","n">>
S_admin_down == <<"a","d","m","i","n","-","d","o","w","n">>
S_parent_admin_down ==
    <<"p","a","r","e","n","t","-","a","d","m","i","n","-","d","o","w","n">>
S_disable == <<"d","i","s","a","b","l","e">>
S_disabled == <<"d","i","s","a","b","l","e","d">>
S_Disabled == <<"D","i","s","a","b","l","e","d">>
S_err_disabled == <<"e","r","r","-","d","i","s","a","b","l","e","d">>
S_ERR == <<"E","R","R">>
S_err == <<"e","r","r">>
S_xerr == <<"x","e","r","r">>
S_empty == <<>>

INTERFACE_ADMIN_DOWN_REASON ==
    <<S_admin, S_admin_down, S_parent_admin_down, S_disable, S_disabled>>

\* x in list
InList(x, list) == \E k \in DOMAIN list : list[k] = x

\* sub in s, for strings
StrContains(sub, s) ==
    \E k \in 0..(Len(s) - Len(sub)) : SubSeq(s, k + 1, k + Len(sub)) = sub

---------------------------------------------------------------------------
(* Ordered dicts *)

DictKeys(d) == [k \in DOMAIN d |-> d[k][1]]
DictHas(d, key) == \E k \in DOMAIN d : d[k][1] = key
DictGet(d, key) == d[CHOOSE k \in DOMAIN d : d[k][1] = key][2]
\* d[key] = value: replaces in place, or adds at the end
DictPut(d, key, value) ==
    IF DictHas(d, key)
    THEN [k \in DOMAIN d |-> IF d[k][1] = key THEN <<key, value>> ELSE d[k]]
    ELSE Append(d, <<key, value>>)

---------------------------------------------------------------------------
(* fetch_interfaces_data: the grouping loop *)

\* Faulty variant of NewGroup: the first record of a hostname is not kept.
NewGroupEmpty(intf) == [interfaces |-> <<>>]

\* {"interfaces": [intf]}
NewGroup(intf) == [interfaces |-> <<intf>>]

\* interfaces_dict[hostname]["interfaces"].append(intf)
AppendToGroup(group, intf) == [interfaces |-> Append(group.interfaces, intf)]

\* One iteration of `for intf in interfaces_json`
GroupStep(dict, intf) ==
    IF DictHas(dict, intf.hostname)
    THEN DictPut(dict, intf.hostname,
                 AppendToGroup(DictGet(dict, intf.hostname), intf))
    ELSE DictPut(dict, intf.hostname, NewGroup(intf))

RECURSIVE GroupLoop(_, _, _)
GroupLoop(json, k, dict) ==
    IF k > Len(json) THEN dict
    ELSE GroupLoop(json, k + 1, GroupStep(dict, json[k]))

\* interfaces_dict as fetch_interfaces_data returns it for interfaces_json
GroupByHostname(json) == GroupLoop(json, 1, <<>>)

---------------------------------------------------------------------------
(* build_interface_report *)

IsL1UpL2Up(i) == i.l1 = "up" /\ i.l2 = "up"
IsL1DownL2Down(i) == i.l1 = "down" /\ i.l2 = "down"
IsL1UpL2Down(i) == i.l1 = "up" /\ i.l2 = "down"
IsL1L2Unknown(i) == i.l1 \notin {"up", "down"} \/ i.l2 \notin {"up", "down"}

\* Faulty variant of IsAdminDown: only an interface that is l1&l2 down counts.
IsAdminDownWhenDown(i) ==
    InList(i.reason, INTERFACE_ADMIN_DOWN_REASON) /\ IsL1DownL2Down(i)

\* i["reason"] in INTERFACE_ADMIN_DOWN_REASON (the key must be there)
IsAdminDown(i) == InList(i.reason, INTERFACE_ADMIN_DOWN_REASON)

\* i.get("reason") is not None and "err" in i.get("reason", "")
IsErrDisabled(i) ==
    LET reason == IF "reason" \in DOMAIN i THEN i.reason ELSE None
        text == IF "reason" \in DOMAIN i THEN i.reason ELSE <<>>
    IN  reason # None /\ StrContains(S_err, text)

\* round(x, 2) of x = num / den * 100, in hundredths: to the nearest
\* hundredth, a tie to the even one.  (The float product is the exact
\* quotient's nearest double; the two agree for every den below 160.)
Round2(num, den) ==
    LET q == (num * 10000) \div den
        r == (num * 10000) % den
    IN  IF 2 * r < den THEN q
        ELSE IF 2 * r > den THEN q + 1
        ELSE IF q % 2 = 0 THEN q ELSE q + 1

\* Faulty variant of Percentage: cut to two decimals instead of rounded.
PercentageTruncated(count, interfaces_total) ==
    IF interfaces_total > 0 THEN (count * 10000) \div interfaces_total ELSE 0

\* round((count / interfaces_total) * 100, 2) if interfaces_total > 0 else 0
Percentage(count, interfaces_total) ==
    IF interfaces_total > 0 THEN Round2(count, interfaces_total) ELSE 0

\* Faulty variant of HeadInterface: the last record of the device instead.
LastInterface(data) == data.interfaces[Len(data.interfaces)]

\* data["interfaces"][0]
HeadInterface(data) == data.interfaces[1]

\* The dict appended to interfaces_report for one device; each counter is
\* len([i for i in data["interfaces"] if ...])
ReportRow(hostname, data) ==
    LET interfaces_total == Len(data.interfaces)
        interfaces_l1up_l2up == Len(SelectSeq(data.interfaces, IsL1UpL2Up))
        interfaces_l1down_l2down == Len(SelectSeq(data.interfaces, IsL1DownL2Down))
        interfaces_l1up_l2down == Len(SelectSeq(data.interfaces, IsL1UpL2Down))
        interfaces_l1l2unknown == Len(SelectSeq(data.interfaces, IsL1L2Unknown))
        interfaces_admin_down == Len(SelectSeq(data.interfaces, IsAdminDown))
        interfaces_err_disabled == Len(SelectSeq(data.interfaces, IsErrDisabled))
        count_interfaces_in_use ==
            interfaces_l1up_l2up + interfaces_l1up_l2down + interfaces_l1l2unknown
        count_interfaces_not_used == interfaces_l1down_l2down
    IN  << <<"hostname", hostname>>,
           <<"sn", HeadInterface(data).sn>>,
           <<"siteName", HeadInterface(data).siteName>>,
           <<"total", interfaces_total>>,
           <<"l1&l2 up", interfaces_l1up_l2up>>,
           <<"l1&l2 down", interfaces_l1down_l2down>>,
           <<"l1 up & l2 down", interfaces_l1up_l2down>>,
           <<"l1 and l2 unknown", interfaces_l1l2unknown>>,
           <<"admin-down", interfaces_admin_down>>,
           <<"err-disabled", interfaces_err_disabled>>,
           <<"port utilisation (%)",
             Percentage(count_interfaces_in_use, interfaces_total)>>,
           <<"port availability (%)",
             Percentage(count_interfaces_not_used, interfaces_total)>> >>

\* The exception one device raises, "none" if none: i["reason"] raises
\* KeyError on a record without the key (line 155), then
\* data["interfaces"][0] raises IndexError on an empty list (line 166).
RowError(data) ==
    IF \E n \in DOMAIN data.interfaces : "reason" \notin DOMAIN data.interfaces[n]
    THEN "KeyError"
    ELSE IF data.interfaces = <<>> THEN "IndexError"
    ELSE "none"

RECURSIVE BuildLoop(_, _, _)
BuildLoop(dict, k, report) ==
    IF k > Len(dict) THEN [err |-> "none", report |-> report]
    ELSE LET hostname == dict[k][1]
             data == dict[k][2]
         IN  IF RowError(data) # "none"
             THEN [err |-> RowError(data), report |-> <<>>]
             ELSE BuildLoop(dict, k + 1, Append(report, ReportRow(hostname, data)))

\* build_interface_report(interfaces_dict): the list, or the exception
build_interface_report(dict) == BuildLoop(dict, 1, <<>>)

---------------------------------------------------------------------------
(* create_report_file *)

NoFile == [kind |-> "none", header_written |-> FALSE, header |-> <<>>,
           lines |-> <<>>, raw |-> <<>>]

\* writer.writerow(item): the values of item in the order of fieldnames
CsvLine(fieldnames, item) ==
    [j \in DOMAIN fieldnames |-> DictGet(item, fieldnames[j])]

\* Faulty variant of CsvFile: an empty report gives an empty file, no error.
CsvFileEmptyTolerant(report) ==
    IF report = <<>>
    THEN [err |-> "none",
          file |-> [NoFile EXCEPT !.kind = "csv"]]
    ELSE [err |-> "none",
          file |-> [kind |-> "csv", header_written |-> TRUE,
                    header |-> DictKeys(report[1]),
                    lines |-> [n \in DOMAIN report |->
                                   CsvLine(DictKeys(report[1]), report[n])],
                    raw |-> <<>>]]

\* The csv branch: open() creates the file, interfaces_report[0] raises
\* IndexError on an empty list, else the header and one line per item.
CsvFile(report) ==
    IF report = <<>>
    THEN [err |-> "IndexError",
          file |-> [NoFile EXCEPT !.kind = "csv"]]
    ELSE [err |-> "none",
          file |-> [kind |-> "csv", header_written |-> TRUE,
                    header |-> DictKeys(report[1]),
                    lines |-> [n \in DOMAIN report |->
                                   CsvLine(DictKeys(report[1]), report[n])],
                    raw |-> <<>>]]

\* The xlsx branch: sheet "report" from DataFrame(interfaces_report) (no
\* column and no row when the list is empty), sheet "intf_raw_data" from
\* DataFrame(interfaces_json).
XlsxFile(report, json) ==
    [err |-> "none",
     file |-> [kind |-> "xlsx", header_written |-> report # <<>>,
               header |-> IF report = <<>> THEN <<>> ELSE DictKeys(report[1]),
               lines |-> [n \in DOMAIN report |->
                              CsvLine(DictKeys(report[1]), report[n])],
               raw |-> json]]

create_report_file(report, json, format) ==
    IF format = "csv" THEN CsvFile(report) ELSE XlsxFile(report, json)

---------------------------------------------------------------------------
(* Inputs *)

Hostnames == {"A", "B"}
LinkStates == {"up", "down", "unknown"}

Intf(h, sn, site, l1, l2, reason) ==
    [hostname |-> h, sn |-> sn, siteName |-> site, l1 |-> l1, l2 |-> l2,
     reason |-> reason]

\* A record without the reason key
IntfNoReason(h, sn, site, l1, l2) ==
    [hostname |-> h, sn |-> sn, siteName |-> site, l1 |-> l1, l2 |-> l2]

\* Every (l1, l2) pair on one device, three of them on a second one.
LinkRecords ==
    {Intf("A", "SN1", "S1", l1, l2, None) : l1 \in LinkStates, l2 \in LinkStates}
    \cup {Intf("B", "SN1", "S1", "up", "up", None),
          Intf("B", "SN1", "S1", "down", "up", None),
          Intf("B", "SN1", "S1", "unknown", "down", None)}

\* Every reason on an l1&l2 down interface, three of them on an up one.
ReasonRecords ==
    {Intf("A", "SN1", "S1", "down", "down", r) :
         r \in {None, S_admin, S_admin_down, S_parent_admin_down, S_disable,
                S_disabled, S_Disabled, S_err_disabled, S_ERR, S_xerr,
                S_empty}}
    \cup {Intf("A", "SN1", "S1", "up", "up", r) :
              r \in {S_admin_down, S_disabled, S_err_disabled}}

\* Two devices whose records disagree on sn and siteName.
GroupRecords ==
    {Intf(h, sn, site, "up", "up", None) :
         h \in Hostnames, sn \in {"SN1", "SN2"}, site \in {"S1", "S2"}}

SeqsUpTo(S, n) == UNION {[1..m -> S] : m \in 0..n}

\* The lists ipf.inventory.interfaces.all may return
FetchedLists ==
    SeqsUpTo(LinkRecords, MaxLen) \cup SeqsUpTo(ReasonRecords, MaxLen)
    \cup SeqsUpTo(GroupRecords, MaxLen)

---------------------------------------------------------------------------
(* main *)

Init ==
    /\ pc = "start"
    /\ error = "none"
    /\ report_format \in {"csv", "xlsx"}
    /\ interfaces_json = <<>>
    /\ interfaces_dict = <<>>
    /\ interfaces_report = <<>>
    /\ report_file = NoFile

\* ipf.inventory.interfaces.count returns
FetchCount ==
    /\ pc = "start"
    /\ pc' = "counted"
    /\ UNCHANGED <<error, report_format, interfaces_json, interfaces_dict,
                   interfaces_report, report_file>>

\* ipf.inventory.interfaces.count raises: nothing catches it
FetchCountFails ==
    /\ pc = "start"
    /\ pc' = "aborted"
    /\ error' = "count failed"
    /\ UNCHANGED <<report_format, interfaces_json, interfaces_dict,
                   interfaces_report, report_file>>

\* ipf.inventory.interfaces.all returns, and the records are grouped
FetchAll ==
    /\ pc = "counted"
    /\ \E json \in FetchedLists :
           /\ interfaces_json' = json
           /\ interfaces_dict' = GroupByHostname(json)
    /\ pc' = "fetched"
    /\ UNCHANGED <<error, report_format, interfaces_report, report_file>>

\* Faulty variant of FetchAllFails: the fetch is tried again.
FetchAllRetries ==
    /\ pc = "counted"
    /\ pc' = "start"
    /\ UNCHANGED <<error, report_format, interfaces_json, interfaces_dict,
                   interfaces_report, report_file>>

\* ipf.inventory.interfaces.all raises: nothing catches it
FetchAllFails ==
    /\ pc = "counted"
    /\ pc' = "aborted"
    /\ error' = "all failed"
    /\ UNCHANGED <<report_format, interfaces_json, interfaces_dict,
                   interfaces_report, report_file>>

\* interfaces_report = build_interface_report(interfaces_dict)
BuildReport ==
    /\ pc = "fetched"
    /\ LET res == build_interface_report(interfaces_dict)
       IN  /\ pc' = IF res.err = "none" THEN "built" ELSE "aborted"
           /\ error' = res.err
           /\ interfaces_report' = res.report
    /\ UNCHANGED <<report_format, interfaces_json, interfaces_dict, report_file>>

\* report_file = create_report_file(...)
CreateReportFile ==
    /\ pc = "built"
    /\ LET res == create_report_file(interfaces_report, interfaces_json,
                                     report_format)
       IN  /\ pc' = IF res.err = "none" THEN "written" ELSE "aborted"
           /\ error' = res.err
           /\ report_file' = res.file
    /\ UNCHANGED <<report_format, interfaces_json, interfaces_dict,
                   interfaces_report>>

Next ==
    \/ FetchCount
    \/ FetchCountFails
    \/ FetchAll
    \/ FetchAllFails
    \/ BuildReport
    \/ CreateReportFile

Spec == Init /\ [][Next]_vars

---------------------------------------------------------------------------
(* build_interface_report on its own *)

\* Records of device h given to build_interface_report directly
BuildRecords(h) ==
    {Intf(h, "SN1", "S1", "up", "up", None),
     Intf(h, "SN1", "S1", "down", "down", S_disabled),
     IntfNoReason(h, "SN1", "S1", "down", "down")}

\* Dicts of one or two devices, each with a list that may be empty
BuildInputs ==
    {<< <<"A", [interfaces |-> a]>> >> :
         a \in SeqsUpTo(BuildRecords("A"), MaxLen)}
    \cup {<< <<"A", [interfaces |-> a]>>, <<"B", [interfaces |-> b]>> >> :
              a \in SeqsUpTo(BuildRecords("A"), MaxLen),
              b \in SeqsUpTo(BuildRecords("B"), MaxLen)}

InitBuild ==
    /\ pc = "fetched"
    /\ error = "none"
    /\ report_format = "xlsx"
    /\ interfaces_json = <<>>
    /\ interfaces_dict \in BuildInputs
    /\ interfaces_report = <<>>
    /\ report_file = NoFile

NextBuild == BuildReport

SpecBuild == InitBuild /\ [][NextBuild]_vars

---------------------------------------------------------------------------
(* Properties: what the report says, stated on the fetched records *)

Field(row, key) == DictGet(row, key)

\* The run holds a report: build_interface_report has returned.
HasReport == pc \in {"built", "written"}

\* The run holds a grouping: fetch_interfaces_data has returned.
HasGrouping == pc \in {"fetched", "built", "written"}

\* Places in interfaces_json of the records of device h
RecordsOf(h) == {n \in DOMAIN interfaces_json : interfaces_json[n].hostname = h}

\* The fetched records
Fetched == {interfaces_json[n] : n \in DOMAIN interfaces_json}

\* How many records of device h are in the set S
NumberOf(h, S) == Cardinality({n \in RecordsOf(h) : interfaces_json[n] \in S})

\* p is num / den * 100 to the nearest hundredth
IsRounded(p, num, den) ==
    LET d == p * den - num * 10000
    IN  2 * (IF d < 0 THEN -d ELSE d) <= den

AdminDownReasons ==
    {S_admin, S_admin_down, S_parent_admin_down, S_disable, S_disabled}

\* The text holds the letters e, r, r in a row
HasErr(text) ==
    \E k \in 1..(Len(text) - 2) :
        text[k] = "e" /\ text[k + 1] = "r" /\ text[k + 2] = "r"

RefUpUp(i) == i.l1 = "up" /\ i.l2 = "up"
RefDownDown(i) == i.l1 = "down" /\ i.l2 = "down"
RefUpDown(i) == i.l1 = "up" /\ i.l2 = "down"
RefUnknown(i) == ~(i.l1 \in {"up", "down"} /\ i.l2 \in {"up", "down"})
RefAdminDown(i) ==
    "reason" \in DOMAIN i /\ i.reason # None /\ i.reason \in AdminDownReasons
RefErrDisabled(i) ==
    "reason" \in DOMAIN i /\ i.reason # None /\ HasErr(i.reason)

\* The fetched records in each link state and with each overlay
UpUp == {i \in Fetched : RefUpUp(i)}
DownDown == {i \in Fetched : RefDownDown(i)}
UpDown == {i \in Fetched : RefUpDown(i)}
Unknown == {i \in Fetched : RefUnknown(i)}
AdminDown == {i \in Fetched : RefAdminDown(i)}
ErrDisabled == {i \in Fetched : RefErrDisabled(i)}

\* C1: in every row of the report the four link-state counters add up to
\* total: each record of the device is in exactly one of the four buckets.
C1_PartitionSumsToTotal ==
    HasReport =>
        \A k \in DOMAIN interfaces_report :
            LET row == interfaces_report[k]
            IN  Field(row, "l1&l2 up") + Field(row, "l1&l2 down")
                + Field(row, "l1 up & l2 down") + Field(row, "l1 and l2 unknown")
                = Field(row, "total")

\* C3: for every device the link-state counters are the numbers of its
\* records in each state, utilisation is (up_up + up_down + unknown) / total
\* x 100 and availability is down_down / total x 100, to two decimals; the
\* records [(A, up, up), (A, down, down)] give 2, 1, 1, 50.0 and 50.0.
C3_CountersAndPercentages ==
    HasReport =>
        /\ \A k \in DOMAIN interfaces_report :
               LET row == interfaces_report[k]
                   h == Field(row, "hostname")
                   total == Cardinality(RecordsOf(h))
                   in_use == NumberOf(h, UpUp) + NumberOf(h, UpDown)
                             + NumberOf(h, Unknown)
               IN  /\ total > 0
                   /\ Field(row, "total") = total
                   /\ Field(row, "l1&l2 up") = NumberOf(h, UpUp)
                   /\ Field(row, "l1&l2 down") = NumberOf(h, DownDown)
                   /\ Field(row, "l1 up & l2 down") = NumberOf(h, UpDown)
                   /\ Field(row, "l1 and l2 unknown") = NumberOf(h, Unknown)
                   /\ IsRounded(Field(row, "port utilisation (%)"), in_use, total)
                   /\ IsRounded(Field(row, "port availability (%)"),
                                NumberOf(h, DownDown), total)
        /\ ( /\ Len(interfaces_json) = 2
             /\ \A n \in 1..2 : interfaces_json[n].hostname = "A"
             /\ RefUpUp(interfaces_json[1])
             /\ RefDownDown(interfaces_json[2]) )
           => /\ Len(interfaces_report) = 1
              /\ Field(interfaces_report[1], "total") = 2
              /\ Field(interfaces_report[1], "l1&l2 up") = 1
              /\ Field(interfaces_report[1], "l1&l2 down") = 1
              /\ Field(interfaces_report[1], "port utilisation (%)") = 5000
              /\ Field(interfaces_report[1], "port availability (%)") = 5000

\* C3's case: a device of three records, two of them in use (66.67 %).
C3_Witness ==
    /\ pc = "built"
    /\ \E k \in DOMAIN interfaces_report :
           /\ Field(interfaces_report[k], "total") = 3
           /\ Field(interfaces_report[k], "l1&l2 down") = 1
           /\ Field(interfaces_report[k], "port utilisation (%)") = 6667
           /\ Field(interfaces_report[k], "port availability (%)") = 3333

\* The fetched records with every reason replaced by None
WithoutReasons ==
    [n \in DOMAIN interfaces_json |->
         [interfaces_json[n] EXCEPT !.reason = None]]

\* The link-state counters and the two percentages of a row
LinkPart(row) ==
    [key \in {"total", "l1&l2 up", "l1&l2 down", "l1 up & l2 down",
              "l1 and l2 unknown", "port utilisation (%)",
              "port availability (%)"} |-> Field(row, key)]

\* C4: admin-down is the number of the device's records whose reason is one
\* of the five listed strings, err-disabled the number whose reason is not
\* None and contains "err", whatever l1 and l2 are; the link-state counters
\* and the two percentages are what they would be without any reason.
C4_OverlaysByReasonAlone ==
    HasReport =>
        LET plain == build_interface_report(GroupByHostname(WithoutReasons)).report
        IN  \A k \in DOMAIN interfaces_report :
                LET row == interfaces_report[k]
                    h == Field(row, "hostname")
                IN  /\ Field(row, "admin-down") = NumberOf(h, AdminDown)
                    /\ Field(row, "err-disabled") = NumberOf(h, ErrDisabled)
                    /\ LinkPart(row) = LinkPart(plain[k])

\* C4's case: an interface that is up and admin-down, counted in both.
C4_Witness ==
    /\ pc = "built"
    /\ \E n \in DOMAIN interfaces_json :
           RefUpUp(interfaces_json[n]) /\ interfaces_json[n].reason = S_disabled
    /\ \E n \in DOMAIN interfaces_json :
           RefDownDown(interfaces_json[n]) /\ interfaces_json[n].reason = S_xerr
    /\ Field(interfaces_report[1], "admin-down") = 1
    /\ Field(interfaces_report[1], "err-disabled") = 1
    /\ Field(interfaces_report[1], "l1&l2 up") = 1

\* C9: every interface counted in admin-down or err-disabled is counted in
\* l1&l2 down: availability counts all of them as not used, utilisation
\* counts none of them as in use.
C9_OverlaysAreDown ==
    HasReport =>
        \A k \in DOMAIN interfaces_report :
            LET row == interfaces_report[k]
                h == Field(row, "hostname")
                Overlay == AdminDown \cup ErrDisabled
                NotUsed == DownDown \cup Overlay
                InUse == (UpUp \cup UpDown \cup Unknown) \ NotUsed
            IN  /\ Field(row, "admin-down") <= Field(row, "l1&l2 down")
                /\ Field(row, "err-disabled") <= Field(row, "l1&l2 down")
                /\ IsRounded(Field(row, "port availability (%)"),
                             NumberOf(h, NotUsed), Field(row, "total"))
                /\ IsRounded(Field(row, "port utilisation (%)"),
                             NumberOf(h, InUse), Field(row, "total"))

---------------------------------------------------------------------------
(* Properties of the grouping *)

RECURSIVE SumOfSizes(_, _)
SumOfSizes(dict, k) ==
    IF k > Len(dict) THEN 0
    ELSE Len(dict[k][2].interfaces) + SumOfSizes(dict, k + 1)

\* The hostnames of a list in the order in which each is first seen
FirstSeen(json) ==
    LET IsFirst(n) == \A m \in 1..(n - 1) : json[m].hostname # json[n].hostname
        F[n \in 0..Len(json)] ==
            IF n = 0 THEN <<>>
            ELSE IF IsFirst(n) THEN Append(F[n - 1], json[n].hostname)
            ELSE F[n - 1]
    IN  F[Len(json)]

\* The first record of device h in the fetched list
FirstRecordOf(h) ==
    interfaces_json[CHOOSE n \in RecordsOf(h) : \A m \in RecordsOf(h) : n <= m]

\* C6: the grouping maps each hostname of the fetched records to the
\* records of that hostname in the order fetched: no key twice, no group
\* empty, every record in the group of its hostname, the sizes add up to the
\* number of fetched records.
C6_GroupingIsPartition ==
    HasGrouping =>
        /\ \A j, k \in DOMAIN interfaces_dict :
               interfaces_dict[j][1] = interfaces_dict[k][1] => j = k
        /\ {interfaces_dict[k][1] : k \in DOMAIN interfaces_dict}
           = {interfaces_json[n].hostname : n \in DOMAIN interfaces_json}
        /\ \A k \in DOMAIN interfaces_dict :
               LET h == interfaces_dict[k][1]
                   group == interfaces_dict[k][2].interfaces
                   SameHost(i) == i.hostname = h
               IN  /\ group # <<>>
                   /\ group = SelectSeq(interfaces_json, SameHost)
        /\ SumOfSizes(interfaces_dict, 1) = Len(interfaces_json)

\* C6's case: three records of two devices, interleaved.
C6_Witness ==
    /\ pc = "fetched"
    /\ Len(interfaces_json) = 3
    /\ interfaces_json[1].hostname = "B"
    /\ interfaces_json[2].hostname = "A"
    /\ interfaces_json[3].hostname = "B"
    /\ interfaces_json[3] # interfaces_json[1]
    /\ Len(interfaces_dict) = 2
    /\ Len(interfaces_dict[1][2].interfaces) = 2

\* C7: the report has one row per hostname of the fetched records, in the
\* order in which the hostnames are first seen, and each row carries the sn
\* and siteName of the first record of its hostname.
C7_RowsInFirstSeenOrder ==
    HasReport =>
        /\ [k \in DOMAIN interfaces_report |->
                Field(interfaces_report[k], "hostname")]
           = FirstSeen(interfaces_json)
        /\ Len(interfaces_report)
           = Cardinality({interfaces_json[n].hostname : n \in DOMAIN interfaces_json})
        /\ \A k \in DOMAIN interfaces_report :
               LET row == interfaces_report[k]
                   first == FirstRecordOf(Field(row, "hostname"))
               IN  /\ Field(row, "sn") = first.sn
                   /\ Field(row, "siteName") = first.siteName

\* C7's case: a later record of the first device has another sn and site.
C7_Witness ==
    /\ pc = "built"
    /\ Len(interfaces_json) = 3
    /\ interfaces_json[1].hostname = "B"
    /\ interfaces_json[2].hostname = "A"
    /\ interfaces_json[3].hostname = "B"
    /\ interfaces_json[3].sn # interfaces_json[1].sn
    /\ interfaces_json[3].siteName # interfaces_json[1].siteName
    /\ Len(interfaces_report) = 2
    /\ Field(interfaces_report[1], "hostname") = "B"
    /\ Field(interfaces_report[1], "sn") = interfaces_json[1].sn

---------------------------------------------------------------------------
(* Properties of main and of the output file *)

\* The errors of the two calls of the inventory
FetchErrors == {"count failed", "all failed"}

\* C8: every step of a run is the next stage: the records are fetched and
\* grouped once, from a run that has counted; the report is built once, from
\* the grouping of a finished fetch, one row per group; the file is written
\* from the finished report; a failed fetch ends the run at once, with no
\* record, no report and no file, and an ended run takes no further step.
C8_StageOrder ==
    [][ /\ pc # "aborted" /\ pc # "written"
        /\ pc' = "counted" => pc = "start"
        /\ pc' = "fetched" =>
               /\ pc = "counted"
               /\ interfaces_report' = <<>>
               /\ report_file' = NoFile
        /\ pc' = "built" =>
               /\ pc = "fetched"
               /\ Len(interfaces_report') = Len(interfaces_dict)
               /\ report_file' = NoFile
        /\ pc' = "written" => pc = "built"
        /\ pc' = "start" => pc = "start"
        /\ pc \in {"fetched", "built"} =>
               UNCHANGED <<interfaces_json, interfaces_dict>>
        /\ pc = "built" => UNCHANGED interfaces_report
        /\ pc \in {"start", "counted"} /\ pc' = "aborted" =>
               /\ error' \in FetchErrors
               /\ interfaces_json' = <<>>
               /\ interfaces_dict' = <<>>
               /\ interfaces_report' = <<>>
               /\ report_file' = NoFile
        /\ error' \in FetchErrors => pc' = "aborted"
      ]_vars

\* C8's case: the run has counted, the fetch of the records has failed.
C8_Witness ==
    /\ pc = "aborted"
    /\ error = "all failed"
    /\ interfaces_report = <<>>
    /\ report_file.kind = "none"

\* C10: a csv file written from a report holds the keys of the first row as
\* its header, then one line per row in the order of the list; with an empty
\* report the csv writer ends in an error, the file opened and nothing
\* written to it, and the xlsx writer completes.
C10_CsvFileAndEmptyReport ==
    /\ (pc = "written" /\ report_format = "csv") =>
           /\ interfaces_report # <<>>
           /\ report_file.kind = "csv"
           /\ report_file.header_written
           /\ report_file.header = DictKeys(interfaces_report[1])
           /\ Len(report_file.lines) = Len(interfaces_report)
           /\ \A n \in DOMAIN interfaces_report :
                  /\ Len(report_file.lines[n]) = Len(interfaces_report[n])
                  /\ \A j \in DOMAIN interfaces_report[n] :
                         report_file.lines[n][j] = interfaces_report[n][j][2]
    /\ (pc = "built" /\ report_format = "csv" /\ interfaces_report = <<>>) =>
           ~ENABLED (CreateReportFile /\ pc' = "written")
    /\ (pc = "aborted" /\ error \notin FetchErrors) =>
           /\ error = "IndexError"
           /\ report_format = "csv"
           /\ interfaces_json = <<>>
           /\ interfaces_report = <<>>
           /\ report_file.kind = "csv"
           /\ ~report_file.header_written
           /\ report_file.header = <<>>
           /\ report_file.lines = <<>>
    /\ (pc = "built" /\ report_format = "xlsx") =>
           ENABLED (CreateReportFile /\ pc' = "written")
    /\ (pc = "written" /\ report_format = "xlsx") =>
           report_file.kind = "xlsx"

\* C10's case: no interface was fetched and the csv writer has failed.
C10_Witness ==
    /\ pc = "aborted"
    /\ error = "IndexError"
    /\ report_format = "csv"
    /\ interfaces_report = <<>>
    /\ report_file.kind = "csv"

---------------------------------------------------------------------------
(* Properties of build_interface_report on its own *)

HasEmptyDevice ==
    \E k \in DOMAIN interfaces_dict : interfaces_dict[k][2].interfaces = <<>>

HasMissingReason ==
    \E k \in DOMAIN interfaces_dict :
        \E n \in DOMAIN interfaces_dict[k][2].interfaces :
            "reason" \notin DOMAIN interfaces_dict[k][2].interfaces[n]

\* C2: given a device with no interface, build_interface_report does not
\* fail and gives that device a row with total 0 and both percentages 0.
C2_EmptyDeviceRow ==
    (pc # "fetched" /\ HasEmptyDevice /\ ~HasMissingReason) =>
        /\ pc = "built"
        /\ error = "none"
        /\ Len(interfaces_report) = Len(interfaces_dict)
        /\ \A k \in DOMAIN interfaces_dict :
               interfaces_dict[k][2].interfaces = <<>> =>
                   /\ Field(interfaces_report[k], "hostname") = interfaces_dict[k][1]
                   /\ Field(interfaces_report[k], "total") = 0
                   /\ Field(interfaces_report[k], "port utilisation (%)") = 0
                   /\ Field(interfaces_report[k], "port availability (%)") = 0

\* C5: build_interface_report completes on records whose reason is None or
\* missing; such a record is counted in total and adds nothing to admin-down
\* nor to err-disabled.
C5_NullSafeReason ==
    (pc # "fetched" /\ ~HasEmptyDevice) =>
        /\ pc = "built"
        /\ error = "none"
        /\ Len(interfaces_report) = Len(interfaces_dict)
        /\ \A k \in DOMAIN interfaces_dict :
               LET list == interfaces_dict[k][2].interfaces
               IN  /\ Field(interfaces_report[k], "total") = Len(list)
                   /\ Field(interfaces_report[k], "admin-down")
                      = Cardinality({n \in DOMAIN list : RefAdminDown(list[n])})
                   /\ Field(interfaces_report[k], "err-disabled")
                      = Cardinality({n \in DOMAIN list : RefErrDisabled(list[n])})

===========================================================================
